---- MODULE Spec2Model ----
(***************************************************************************)
(* Model of the call-analysis service: the prompt registry and analysis    *)
(* store of VAPIAnalyzer (vapi_analyzer.py), the webhook handler, and the  *)
(* Flask command surface that drives them (app.py).                        *)
(***************************************************************************)
EXTENDS Integers, Sequences, FiniteSets, TLC

VARIABLES
    system_prompts,    \* VAPIAnalyzer.system_prompts: prompt number n (id "prompt_<n>") -> prompt dict
    active_prompt_id,  \* VAPIAnalyzer.active_prompt_id: a prompt number, or None
    call_analyses,     \* VAPIAnalyzer.call_analyses: call id -> stored analysis dict
    provider,          \* the remote services: the provider's call listing (GET /call), the
                       \* responses GET /call/<id> may give, the outcomes a completion may have
    batch,             \* the analyze-recent request running process_recent_calls
    hooks,             \* the background threads started by vapi_webhook
    resp,              \* the last HTTP response produced by the command surface
    last_score,        \* history: the last analyze_call_performance call and its result
    issued,            \* history: the ids add_system_prompt has returned so far
    activating,        \* the request threads inside the activate handler
    deleting,          \* the request thread inside the delete handler
    report             \* a batch of analyses and what generate_summary_report made of it

vars == <<system_prompts, active_prompt_id, call_analyses, provider, batch,
          hooks, resp, last_score, issued, activating, deleting, report>>

registry_vars == <<system_prompts, active_prompt_id, issued, activating, deleting>>
analysis_vars == <<call_analyses, provider, batch, hooks, last_score, report>>

(***************************************************************************)
(* Bounds of the model.                                                    *)
(***************************************************************************)
MaxPrompts == 3        \* prompts the registry may hold at once
MaxHooks == 2          \* webhook background threads alive at once
MaxActivators == 2     \* request threads inside the activate handler at once
MaxLongListed == 15    \* calls in the long provider listing of the batch runs
MaxBatch == 3          \* analyses in a batch given to generate_summary_report

None == 0              \* Python None for a prompt id
PromptIds == 1..MaxPrompts
Names == {"Default Customer Service", "Sales"}
Bodies == {"", "Be polite."}
DefaultBody == "Be polite."

(***************************************************************************)
(* PromptRegistry: VAPIAnalyzer.add_system_prompt / activate_prompt /      *)
(* get_active_prompt.                                                      *)
(***************************************************************************)

\* add_system_prompt: the id is "prompt_<len+1>"; the entry is assigned
\* under that key whether or not the key already exists.
add_system_prompt(sp, name, prompt) ==
    LET prompt_id == Cardinality(DOMAIN sp) + 1
        entry == [id |-> prompt_id, name |-> name, prompt |-> prompt,
                  is_active |-> FALSE]
    IN  [id |-> prompt_id,
         sp |-> [p \in (DOMAIN sp) \cup {prompt_id} |->
                    IF p = prompt_id THEN entry ELSE sp[p]]]

\* Variant of activate_prompt that leaves the other flags as they are.
activate_prompt_keeping_flags(sp, aid, prompt_id) ==
    IF prompt_id \in DOMAIN sp
    THEN [sp |-> [sp EXCEPT ![prompt_id].is_active = TRUE], aid |-> prompt_id]
    ELSE [sp |-> sp, aid |-> aid]

\* activate_prompt: clears every flag, then, if the id is stored, flags it
\* and records it as the active id.
activate_prompt(sp, aid, prompt_id) ==
    LET cleared == [p \in DOMAIN sp |-> [sp[p] EXCEPT !.is_active = FALSE]]
    IN  IF prompt_id \in DOMAIN sp
        THEN [sp  |-> [cleared EXCEPT ![prompt_id].is_active = TRUE],
              aid |-> prompt_id]
        ELSE [sp |-> cleared, aid |-> aid]

\* get_active_prompt: body of the prompt the active id names, else None.
NoBody == "<None>"
get_active_prompt ==
    IF active_prompt_id # None /\ active_prompt_id \in DOMAIN system_prompts
    THEN system_prompts[active_prompt_id].prompt
    ELSE NoBody

\* Python truthiness of an Optional[str]: None and "" are falsy.
Truthy(s) == s # NoBody /\ s # ""

(***************************************************************************)
(* Command surface for the registry (app.py).  resp is the response the    *)
(* handler returns: op, the prompt number of the request (0 when the       *)
(* request names none), the HTTP status and a numeric payload.             *)
(***************************************************************************)
Response(op, arg, code, n) == [op |-> op, arg |-> arg, code |-> code, n |-> n]

AddPayloads ==
    [name : Names, prompt : Bodies] \cup [name : Names]

\* POST /api/prompts
add_prompt(data) ==
    /\ Cardinality(DOMAIN system_prompts) < MaxPrompts
    /\ IF "name" \notin DOMAIN data \/ "prompt" \notin DOMAIN data
       THEN /\ resp' = Response("add", 0, 400, 0)
            /\ UNCHANGED registry_vars
       ELSE LET r == add_system_prompt(system_prompts, data.name, data.prompt)
            IN  /\ system_prompts' = r.sp
                /\ issued' = issued \cup {r.id}
                /\ resp' = Response("add", r.id, 200, r.id)
                /\ UNCHANGED <<active_prompt_id, activating, deleting>>
    /\ UNCHANGED analysis_vars

\* Variant of the activate handler without the lookup of line 719.
activate_prompt_route_unchecked(prompt_id) ==
    /\ LET r == activate_prompt(system_prompts, active_prompt_id, prompt_id)
       IN  /\ system_prompts' = r.sp
           /\ active_prompt_id' = r.aid
           /\ resp' = Response("activate", prompt_id, 200, 0)
           /\ UNCHANGED <<issued, activating, deleting>>
    /\ UNCHANGED analysis_vars

\* POST /api/prompts/<prompt_id>/activate
activate_prompt_route(prompt_id) ==
    /\ IF prompt_id \notin DOMAIN system_prompts
       THEN /\ resp' = Response("activate", prompt_id, 404, 0)
            /\ UNCHANGED registry_vars
       ELSE LET r == activate_prompt(system_prompts, active_prompt_id, prompt_id)
            IN  /\ system_prompts' = r.sp
                /\ active_prompt_id' = r.aid
                /\ resp' = Response("activate", prompt_id, 200, 0)
                /\ UNCHANGED <<issued, activating, deleting>>
    /\ UNCHANGED analysis_vars

\* POST /api/prompts/<prompt_id>/activate served by a thread of its own
\* while other requests are served: app.run starts the threaded development
\* server and nothing in app.py or vapi_analyzer.py takes a lock.  One step
\* per statement of the handler and of VAPIAnalyzer.activate_prompt.
Activators == 1..MaxActivators
IdleActivation == [pc |-> "idle", prompt_id |-> None]
IdleDeletion == [pc |-> "idle", prompt_id |-> None]

\* app.py lines 719-720: the lookup, and the 404 for an unknown id.
ActivateRequest(t, prompt_id) ==
    /\ activating[t].pc = "idle"
    /\ IF prompt_id \notin DOMAIN system_prompts
       THEN /\ resp' = Response("activate", prompt_id, 404, 0)
            /\ UNCHANGED activating
       ELSE /\ activating' = [activating EXCEPT ![t] =
                                 [pc |-> "clear", prompt_id |-> prompt_id]]
            /\ UNCHANGED resp
    /\ UNCHANGED <<system_prompts, active_prompt_id, issued, deleting, analysis_vars>>

\* vapi_analyzer.py lines 48-49: every flag is set to False.
ActivateClear(t) ==
    /\ activating[t].pc = "clear"
    /\ system_prompts' = [p \in DOMAIN system_prompts |->
                             [system_prompts[p] EXCEPT !.is_active = FALSE]]
    /\ activating' = [activating EXCEPT ![t].pc = "set"]
    /\ UNCHANGED <<active_prompt_id, issued, deleting, resp, analysis_vars>>

\* vapi_analyzer.py lines 52-53: the flag of the selected prompt is set.
ActivateSet(t) ==
    /\ activating[t].pc = "set"
    /\ IF activating[t].prompt_id \in DOMAIN system_prompts
       THEN /\ system_prompts' =
                  [system_prompts EXCEPT ![activating[t].prompt_id].is_active = TRUE]
            /\ activating' = [activating EXCEPT ![t].pc = "store"]
       ELSE /\ activating' = [activating EXCEPT ![t].pc = "reply"]
            /\ UNCHANGED system_prompts
    /\ UNCHANGED <<active_prompt_id, issued, deleting, resp, analysis_vars>>

\* vapi_analyzer.py line 54: the active id is stored.
ActivateStore(t) ==
    /\ activating[t].pc = "store"
    /\ active_prompt_id' = activating[t].prompt_id
    /\ activating' = [activating EXCEPT ![t].pc = "reply"]
    /\ UNCHANGED <<system_prompts, issued, deleting, resp, analysis_vars>>

\* app.py line 723: the handler answers.
ActivateReply(t) ==
    /\ activating[t].pc = "reply"
    /\ resp' = Response("activate", activating[t].prompt_id, 200, 0)
    /\ activating' = [activating EXCEPT ![t] = IdleActivation]
    /\ UNCHANGED <<system_prompts, active_prompt_id, issued, deleting, analysis_vars>>

\* Variant of the delete handler without the active-prompt test of line 735.
delete_prompt_unguarded(prompt_id) ==
    /\ IF prompt_id \notin DOMAIN system_prompts
       THEN /\ resp' = Response("delete", prompt_id, 404, 0)
            /\ UNCHANGED registry_vars
       ELSE /\ system_prompts' =
                   [p \in (DOMAIN system_prompts) \ {prompt_id} |-> system_prompts[p]]
            /\ resp' = Response("delete", prompt_id, 200, 0)
            /\ UNCHANGED <<active_prompt_id, issued, activating, deleting>>
    /\ UNCHANGED analysis_vars

\* DELETE /api/prompts/<prompt_id>
delete_prompt(prompt_id) ==
    /\ IF prompt_id \notin DOMAIN system_prompts
       THEN /\ resp' = Response("delete", prompt_id, 404, 0)
            /\ UNCHANGED registry_vars
       ELSE IF prompt_id = active_prompt_id
       THEN /\ resp' = Response("delete", prompt_id, 400, 0)
            /\ UNCHANGED registry_vars
       ELSE /\ system_prompts' =
                   [p \in (DOMAIN system_prompts) \ {prompt_id} |-> system_prompts[p]]
            /\ resp' = Response("delete", prompt_id, 200, 0)
            /\ UNCHANGED <<active_prompt_id, issued, activating, deleting>>
    /\ UNCHANGED analysis_vars

\* DELETE /api/prompts/<prompt_id> served by a thread of its own while
\* activate requests are served: one step per statement of the handler.
\* app.py lines 731-732: the lookup, and the 404 for an unknown id.
DeleteRequest(prompt_id) ==
    /\ deleting.pc = "idle"
    /\ IF prompt_id \notin DOMAIN system_prompts
       THEN /\ resp' = Response("delete", prompt_id, 404, 0)
            /\ UNCHANGED deleting
       ELSE /\ deleting' = [pc |-> "guard", prompt_id |-> prompt_id]
            /\ UNCHANGED resp
    /\ UNCHANGED <<system_prompts, active_prompt_id, issued, activating, analysis_vars>>

\* app.py lines 735-736: the 400 for the active prompt.
DeleteGuard ==
    /\ deleting.pc = "guard"
    /\ IF deleting.prompt_id = active_prompt_id
       THEN /\ resp' = Response("delete", deleting.prompt_id, 400, 0)
            /\ deleting' = IdleDeletion
       ELSE /\ deleting' = [deleting EXCEPT !.pc = "del"]
            /\ UNCHANGED resp
    /\ UNCHANGED <<system_prompts, active_prompt_id, issued, activating, analysis_vars>>

\* app.py lines 738-741: del and the answer; a prompt that is gone by now
\* raises KeyError, answered with 500.
DeleteRemove ==
    /\ deleting.pc = "del"
    /\ IF deleting.prompt_id \in DOMAIN system_prompts
       THEN /\ system_prompts' =
                   [p \in (DOMAIN system_prompts) \ {deleting.prompt_id} |->
                       system_prompts[p]]
            /\ resp' = Response("delete", deleting.prompt_id, 200, 0)
       ELSE /\ resp' = Response("delete", deleting.prompt_id, 500, 0)
            /\ UNCHANGED system_prompts
    /\ deleting' = IdleDeletion
    /\ UNCHANGED <<active_prompt_id, issued, activating, analysis_vars>>

(***************************************************************************)
(* PerformanceScorer: VAPIAnalyzer.analyze_call_performance.               *)
(*                                                                         *)
(* A completion reply is a sequence of tokens: a fence (three backticks),  *)
(* a word (a fence label such as json, or prose), whitespace, or the text  *)
(* of one JSON value.  str.split, str.strip and json.loads are computed on *)
(* that sequence.  A number is [k, v] with v in tenths, so that int 8 and  *)
(* float 8.0 are different values and float() is a real conversion.        *)
(***************************************************************************)
Fence == [t |-> "fence"]
Word(w) == [t |-> "word", w |-> w]
WS == [t |-> "ws"]
Json(v) == [t |-> "json", v |-> v]

JInt(n) == [k |-> "int", v |-> 10 * n]
JFloat(tenths) == [k |-> "float", v |-> tenths]
JNumStr(tenths) == [k |-> "numstr", v |-> tenths]   \* a string such as "7.5"
JText == [k |-> "text", v |-> 0]                     \* a string such as "high"
JNull == [k |-> "null", v |-> 0]

Detail(parts, raw) == [text |-> parts, raw |-> raw]

required_fields ==
    <<"performance_score", "strengths", "improvement_areas",
      "prompt_suggestions", "compliance_issues", "detailed_analysis">>

\* Index of the first occurrence of sep in s at or after position i, 0 if none.
RECURSIVE Find(_, _, _)
Find(s, sep, i) ==
    IF i + Len(sep) - 1 > Len(s) THEN 0
    ELSE IF SubSeq(s, i, i + Len(sep) - 1) = sep THEN i
    ELSE Find(s, sep, i + 1)

Contains(s, sep) == Find(s, sep, 1) # 0

\* str.split(sep): the pieces between the non-overlapping occurrences of sep.
RECURSIVE Split(_, _)
Split(s, sep) ==
    LET i == Find(s, sep, 1)
    IN  IF i = 0 THEN <<s>>
        ELSE <<SubSeq(s, 1, i - 1)>> \o Split(SubSeq(s, i + Len(sep), Len(s)), sep)

\* str.strip(): drops leading and trailing whitespace.
RECURSIVE Strip(_)
Strip(s) ==
    IF s = <<>> THEN s
    ELSE IF Head(s) = WS THEN Strip(Tail(s))
    ELSE IF s[Len(s)] = WS THEN Strip(SubSeq(s, 1, Len(s) - 1))
    ELSE s

FenceJson == <<Fence, Word("json")>>

\* Variant of Unfence that takes the piece before an unlabelled fence
\* instead of the piece after it.
UnfenceFirstPiece(analysis_text) ==
    IF Contains(analysis_text, FenceJson)
    THEN Split(Split(analysis_text, FenceJson)[2], <<Fence>>)[1]
    ELSE IF Contains(analysis_text, <<Fence>>)
    THEN Split(analysis_text, <<Fence>>)[1]
    ELSE analysis_text

\* Lines 201-204: the text handed to json.loads after fence removal.
Unfence(analysis_text) ==
    IF Contains(analysis_text, FenceJson)
    THEN Split(Split(analysis_text, FenceJson)[2], <<Fence>>)[1]
    ELSE IF Contains(analysis_text, <<Fence>>)
    THEN Split(analysis_text, <<Fence>>)[2]
    ELSE analysis_text

\* json.loads: succeeds exactly when the text is one JSON value.
json_loads(text) ==
    IF Len(text) = 1 /\ text[1].t = "json"
    THEN [ok |-> TRUE, v |-> text[1].v]
    ELSE [ok |-> FALSE, v |-> [k |-> "none"]]

\* float(): of an int, a float or a numeric string; ValueError on any other
\* string, TypeError on None.
float(x) ==
    IF x.k \in {"int", "float", "numstr"}
    THEN [ok |-> TRUE, v |-> JFloat(x.v), err |-> ""]
    ELSE IF x.k = "text"
    THEN [ok |-> FALSE, v |-> x, err |-> "ValueError"]
    ELSE [ok |-> FALSE, v |-> x, err |-> "TypeError"]

\* Variant of FieldDefault in which a missing score defaults to 0.0.
FieldDefaultZero(field) ==
    IF field = "performance_score" THEN JFloat(0)
    ELSE IF field = "detailed_analysis" THEN Detail(<<"Analysis completed">>, <<>>)
    ELSE <<>>

\* Line 212: the default of a missing field.
FieldDefault(field) ==
    IF field = "performance_score" THEN JFloat(50)
    ELSE IF field = "detailed_analysis" THEN Detail(<<"Analysis completed">>, <<>>)
    ELSE <<>>

\* Lines 209-212: every required field the object lacks gets its default.
FillDefaults(obj) ==
    LET req == {required_fields[i] : i \in 1..Len(required_fields)}
    IN  [f \in (DOMAIN obj) \cup req |->
            IF f \in DOMAIN obj THEN obj[f] ELSE FieldDefault(f)]

\* Variant of ParseFallback that answers with the score and lists of lines
\* 244-248.
ParseFallbackAsApi(analysis_text) ==
    [performance_score |-> JFloat(0),
     strengths |-> <<>>,
     improvement_areas |-> <<"Analysis failed - API error">>,
     prompt_suggestions |-> <<>>,
     compliance_issues |-> <<"System error during analysis">>,
     detailed_analysis |->
        Detail(<<"Automated analysis encountered parsing issues. Raw AI response: ">>,
               analysis_text)]

\* Lines 232-239: the fallback returned when json.loads raises.
ParseFallback(analysis_text) ==
    [performance_score |-> JFloat(50),
     strengths |-> <<"Call completed successfully">>,
     improvement_areas |-> <<"Manual review recommended - analysis parsing failed">>,
     prompt_suggestions |-> <<"System prompt may need refinement">>,
     compliance_issues |-> <<>>,
     detailed_analysis |->
        Detail(<<"Automated analysis encountered parsing issues. Raw AI response: ">>,
               analysis_text)]

\* Variant of ApiFallback that answers with the values of lines 232-237.
ApiFallbackAsParse(err) ==
    [performance_score |-> JFloat(50),
     strengths |-> <<"Call completed successfully">>,
     improvement_areas |-> <<"Manual review recommended - analysis parsing failed">>,
     prompt_suggestions |-> <<"System prompt may need refinement">>,
     compliance_issues |-> <<>>,
     detailed_analysis |-> Detail(<<"Analysis failed due to API error: ", err>>, <<>>)]

\* Lines 243-250: the fallback returned when anything else raises.
ApiFallback(err) ==
    [performance_score |-> JFloat(0),
     strengths |-> <<>>,
     improvement_areas |-> <<"Analysis failed - API error">>,
     prompt_suggestions |-> <<>>,
     compliance_issues |-> <<"System error during analysis">>,
     detailed_analysis |-> Detail(<<"Analysis failed due to API error: ", err>>, <<>>)]

(***************************************************************************)
(* Transcripts.  A transcript is a sequence of text chunks; the empty      *)
(* string is the empty sequence.                                           *)
(***************************************************************************)
NoTranscript == <<"No transcript available">>
NotYetTranscript == <<"Transcript not yet available - recording found">>
ShortText == "Agent: Hello. Customer: Bye."
LongText == "<a transcript of 1500 characters>"
SampleText == "<sample_transcript of test_analysis, 1360 characters>"

ChunkLen(c) ==
    IF c = LongText THEN 1500
    ELSE IF c = SampleText THEN 1360
    ELSE IF c \in {" ", "\n"} THEN 1
    ELSE 10

RECURSIVE StrLen(_)
StrLen(t) == IF t = <<>> THEN 0 ELSE ChunkLen(Head(t)) + StrLen(Tail(t))

\* bool(t.strip()) is False: nothing but whitespace.
Blank(t) == \A i \in 1..Len(t) : t[i] \in {" ", "\n"}

\* Line 223: the transcript kept with a stored analysis.
Excerpt(transcript) ==
    IF StrLen(transcript) > 1000
    THEN [text |-> transcript, chars |-> 1000, ellipsis |-> TRUE]
    ELSE [text |-> transcript, chars |-> StrLen(transcript), ellipsis |-> FALSE]

NoCallId == "<None>"
CallIdGiven(call_id) == call_id # NoCallId /\ call_id # ""

(***************************************************************************)
(* analyze_call_performance(transcript, system_prompt, call_id) on the     *)
(* outcome of the completion call: it raised, or it returned content.      *)
(* The result is the returned dict and the call_analyses the call leaves.  *)
(***************************************************************************)
Raised == [raises |-> TRUE, content |-> <<>>]
Replied(content) == [raises |-> FALSE, content |-> content]

analyze_call_performance(transcript, system_prompt, call_id, completion, store) ==
    LET analysis_text == Unfence(Strip(completion.content))
        loaded == json_loads(Strip(analysis_text))
        filled == FillDefaults(loaded.v.o)
        score == float(filled["performance_score"])
        analysis_json == [filled EXCEPT !["performance_score"] = score.v]
        stored == [call_id |-> call_id, analyzed_at |-> "now",
                   transcript |-> Excerpt(transcript)] @@ analysis_json
    IN  IF completion.raises
        THEN [ret |-> ApiFallback("APIError"), store |-> store]
        ELSE IF ~loaded.ok
        THEN [ret |-> ParseFallback(analysis_text), store |-> store]
        ELSE IF loaded.v.k # "obj"
        THEN [ret |-> ApiFallback("TypeError"), store |-> store]
        ELSE IF ~score.ok
        THEN [ret |-> ApiFallback(score.err), store |-> store]
        ELSE [ret |-> analysis_json,
              store |-> IF CallIdGiven(call_id)
                        THEN [c \in (DOMAIN store) \cup {call_id} |->
                                 IF c = call_id THEN stored ELSE store[c]]
                        ELSE store]

(***************************************************************************)
(* TranscriptSource: VAPIAnalyzer.get_call_transcript on the response of   *)
(* GET /call/<id>.  status 0 stands for a transport failure (requests.get  *)
(* raised).  data maps the keys the body has to their values.              *)
(***************************************************************************)
Title(role) ==
    IF role = "user" THEN "User"
    ELSE IF role = "assistant" THEN "Assistant"
    ELSE IF role = "unknown" THEN "Unknown"
    ELSE role

Get(d, key, default) == IF key \in DOMAIN d THEN d[key] ELSE default

\* Lines 122-128: the "<Role>: <content>" lines of the messages that have
\* content, joined by newlines.
RECURSIVE JoinMessages(_)
JoinMessages(messages) ==
    IF messages = <<>> THEN <<>>
    ELSE LET msg == Head(messages)
             role == Get(msg, "role", "unknown")
             content == Get(msg, "content", "")
             rest == JoinMessages(Tail(messages))
         IN  IF content = "" THEN rest
             ELSE IF rest = <<>> THEN <<Title(role), ": ", content>>
             ELSE <<Title(role), ": ", content, "\n">> \o rest

get_call_transcript(response) ==
    IF response.status # 200 THEN <<>>
    ELSE LET call_data == response.data
         IN  IF "transcript" \in DOMAIN call_data /\ call_data["transcript"] # <<>>
             THEN call_data["transcript"]
             ELSE IF "messages" \in DOMAIN call_data
             THEN JoinMessages(call_data["messages"])
             ELSE IF "artifact" \in DOMAIN call_data
                     /\ "transcript" \in DOMAIN call_data["artifact"]
             THEN call_data["artifact"]["transcript"]
             ELSE IF "recordingUrl" \in DOMAIN call_data
             THEN NotYetTranscript
             ELSE NoTranscript

Ok200(data) == [status |-> 200, data |-> data]
EmptyDict == [x \in {} |-> <<>>]

\* Responses GET /call/<id> may give.
DetailResponses ==
    { Ok200([transcript |-> <<ShortText>>]),
      Ok200([transcript |-> <<" ">>]),
      Ok200([messages |-> <<[role |-> "user", content |-> "Hi"],
                            [role |-> "assistant", content |-> ""],
                            [content |-> "Bye"]>>]),
      Ok200([messages |-> <<>>, artifact |-> [transcript |-> <<ShortText>>]]),
      Ok200([transcript |-> <<>>, artifact |-> [transcript |-> <<LongText>>]]),
      Ok200([recordingUrl |-> "https://rec"]),
      Ok200(EmptyDict),
      [status |-> 404, data |-> EmptyDict],
      [status |-> 0, data |-> EmptyDict] }

(***************************************************************************)
(* Outcomes of the completion call.                                        *)
(***************************************************************************)
Obj(o) == [k |-> "obj", o |-> o]
JList == [k |-> "list"]

FullObj ==
    Obj([performance_score |-> JInt(8),
         strengths |-> <<"polite greeting">>,
         improvement_areas |-> <<>>,
         prompt_suggestions |-> <<>>,
         compliance_issues |-> <<>>,
         detailed_analysis |-> Detail(<<"Short but courteous.">>, <<>>)])

OtherObj ==
    Obj([performance_score |-> JFloat(65),
         strengths |-> <<"clear">>,
         improvement_areas |-> <<"slow", "no recap">>,
         prompt_suggestions |-> <<"ask for recap">>,
         compliance_issues |-> <<"identity not verified">>,
         detailed_analysis |-> Detail(<<"Adequate.">>, <<>>)])

PartialObj ==
    Obj([strengths |-> <<"clear">>,
         improvement_areas |-> <<"slow">>,
         prompt_suggestions |-> <<>>])

\* Replies that give the score and leave other fields out: the score as a
\* JSON number, and as a string that spells a number.
ScoreOnlyObj ==
    Obj([performance_score |-> JInt(7),
         compliance_issues |-> <<"identity not verified">>])

SpelledScoreObj ==
    Obj([performance_score |-> JNumStr(75),
         strengths |-> <<"clear">>,
         detailed_analysis |-> Detail(<<"Adequate.">>, <<>>)])

WithScore(x) == Obj([FullObj.o EXCEPT !["performance_score"] = x])

Completions ==
    { Raised,
      Replied(<<Json(FullObj)>>),
      Replied(<<Fence, Word("json"), WS, Json(FullObj), WS, Fence>>),
      Replied(<<WS, Fence, WS, Json(OtherObj), WS, Fence>>),
      Replied(<<Fence, Word("JSON"), WS, Json(FullObj), WS, Fence>>),
      Replied(<<Json(PartialObj), WS>>),
      Replied(<<Word("Sorry, I cannot rate this call.")>>),
      Replied(<<Word("Here is the analysis:"), WS, Json(FullObj)>>),
      Replied(<<Word("Result:"), WS, Fence, Word("n/a"), Fence>>),
      Replied(<<Json(ScoreOnlyObj)>>),
      Replied(<<Json(SpelledScoreObj)>>),
      Replied(<<Json(WithScore(JText))>>),
      Replied(<<Json(WithScore(JNull))>>),
      Replied(<<Json(WithScore(JInt(12)))>>),
      Replied(<<Json(JList)>>) }

(***************************************************************************)
(* TranscriptSource: VAPIAnalyzer.get_call_logs on the response of         *)
(* GET /call, and the recency filter of process_recent_calls.              *)
(*                                                                         *)
(* A call is a dict with some of the keys id, createdAt, created_at,       *)
(* duration, endedAt.  A creation timestamp is [k, age]: k is the shape of *)
(* the value (an ISO string with a trailing Z, a plain ISO string, a       *)
(* string that is no date, the empty string, null, a number) and age the   *)
(* hours between the instant it denotes and now.                           *)
(***************************************************************************)
HoursBack == 24
MaxCallsToAnalyze == 10

TS(k, age) == [k |-> k, age |-> age]
\* An ISO string with a UTC offset of off hours, written for an instant
\* age hours before now.
TSOff(age, off) == [k |-> "isoOff", age |-> age, off |-> off]
NoTS == TS("null", 0)
Num(n) == [k |-> "num", age |-> n]

\* Variant of get_call_logs without the status test of line 81.
get_call_logs_any_status(response) ==
    IF response.data.k = "list" THEN response.data.calls
    ELSE IF response.data.k = "dict" /\ "data" \in DOMAIN response.data.o
    THEN response.data.o["data"]
    ELSE <<>>

\* Lines 74-97.
get_call_logs(response) ==
    IF response.status # 200 THEN <<>>
    ELSE IF response.data.k = "list" THEN response.data.calls
    ELSE IF response.data.k = "dict" /\ "data" \in DOMAIN response.data.o
    THEN response.data.o["data"]
    ELSE <<>>

\* The responses GET /call may give when the provider holds calls.
ListResponses(calls) ==
    { [status |-> 200, data |-> [k |-> "list", calls |-> calls]],
      [status |-> 200, data |-> [k |-> "dict", o |-> [data |-> calls]]],
      [status |-> 200, data |-> [k |-> "dict", o |-> [message |-> <<>>]]],
      [status |-> 500, data |-> [k |-> "none"]],
      \* a gateway answering with an error status and a list as body
      [status |-> 503, data |-> [k |-> "list", calls |-> calls]],
      [status |-> 0, data |-> [k |-> "none"]] }

\* Lines 268-292: does the filter keep the call?
IsRecent(call, hours_back) ==
    LET created_at == Get(call, "createdAt", Get(call, "created_at", TS("empty", 0)))
    IN  IF created_at.k \in {"empty", "null"} THEN FALSE     \* falsy: nothing appended
        ELSE IF created_at.k = "num" THEN TRUE               \* AttributeError: line 292
        ELSE IF created_at.k = "bad" THEN TRUE               \* ValueError: line 288
        ELSE IF created_at.k = "isoOff"
        \* line 281 drops the offset and keeps the wall-clock reading, which is
        \* off hours ahead of the instant; datetime.now() is taken as UTC
        THEN created_at.age - created_at.off < hours_back
        ELSE created_at.age < hours_back                     \* call_time > cutoff_time

RECURSIVE FilterRecent(_, _)
FilterRecent(calls, hours_back) ==
    IF calls = <<>> THEN <<>>
    ELSE IF IsRecent(Head(calls), hours_back)
    THEN <<Head(calls)>> \o FilterRecent(Tail(calls), hours_back)
    ELSE FilterRecent(Tail(calls), hours_back)

Min(a, b) == IF a < b THEN a ELSE b

\* Variant of the test of line 313 without the comparison with the
\* recording-found sentinel.
UsableInBatchNoPending(transcript) ==
    ~Blank(transcript) /\ transcript # NoTranscript

\* Line 313 and line 403: the transcript tests of the batch and of the webhook.
UsableInBatch(transcript) ==
    ~Blank(transcript) /\ transcript # NoTranscript /\ transcript # NotYetTranscript
UsableInHook(transcript) ==
    transcript # <<>> /\ transcript # NoTranscript /\ transcript # NotYetTranscript

(***************************************************************************)
(* The effect of one analyze_call_performance call on the store and on     *)
(* the history variables.                                                  *)
(***************************************************************************)
Scored(r, call_id, completion) ==
    /\ call_analyses' = r.store
    /\ last_score' = [call_id |-> call_id, completion |-> completion, ret |-> r.ret]

(***************************************************************************)
(* POST /api/test-analysis (app.py): scores the sample transcript under    *)
(* the fixed call id test_call_001.                                        *)
(***************************************************************************)
TestCallId == "test_call_001"

test_analysis ==
    LET active_prompt == get_active_prompt
    IN  /\ IF ~Truthy(active_prompt)
           THEN /\ resp' = Response("test-analysis", 0, 400, 0)
                /\ UNCHANGED <<call_analyses, last_score>>
           ELSE \E completion \in provider.replies :
                  LET r == analyze_call_performance(<<SampleText>>, active_prompt,
                                                    TestCallId, completion, call_analyses)
                  IN  /\ Scored(r, TestCallId, completion)
                      /\ resp' = Response("test-analysis", 0, 200, 0)
        /\ UNCHANGED <<registry_vars, report, provider, batch, hooks>>

(***************************************************************************)
(* POST /webhook/vapi (app.py) and VAPIWebhookHandler.handle_call_ended,   *)
(* which runs in a background thread of its own.                           *)
(***************************************************************************)
HookIds == 1..MaxHooks
EventCallIds == {"c1"}
Events ==
    [type : {"call-ended", "call-started"}, id : EventCallIds]
        \cup [id : EventCallIds] \cup {EmptyDict}

IdleHook == [pc |-> "idle", call_id |-> NoCallId, system_prompt |-> NoBody,
             transcript |-> <<>>]

\* Variant of vapi_webhook without the type test of line 789.
vapi_webhook_any_type(data) ==
    /\ IF DOMAIN data = {}
       THEN /\ resp' = Response("webhook", 0, 400, 0)
            /\ UNCHANGED hooks
       ELSE \E h \in HookIds :
              /\ hooks[h].pc = "idle"
              /\ hooks' = [hooks EXCEPT ![h] =
                              [IdleHook EXCEPT !.pc = "start",
                                               !.call_id = Get(data, "id", NoCallId)]]
              /\ resp' = Response("webhook", 0, 200, 1)
    /\ UNCHANGED <<registry_vars, report, call_analyses, provider, batch, last_score>>

\* Variant of vapi_webhook that runs handle_call_ended in the request
\* thread and answers when it has returned.
vapi_webhook_inline(data) ==
    /\ IF DOMAIN data = {}
       THEN /\ resp' = Response("webhook", 0, 400, 0)
            /\ UNCHANGED <<call_analyses, last_score>>
       ELSE IF Get(data, "type", "") = "call-ended" /\ Truthy(get_active_prompt)
       THEN \E response \in provider.details : \E completion \in provider.replies :
              LET call_id == Get(data, "id", NoCallId)
                  transcript == get_call_transcript(response)
                  r == analyze_call_performance(transcript, get_active_prompt,
                                                call_id, completion, call_analyses)
              IN  /\ IF UsableInHook(transcript)
                     THEN Scored(r, call_id, completion)
                     ELSE UNCHANGED <<call_analyses, last_score>>
                  /\ resp' = Response("webhook", 0, 200, 1)
       ELSE /\ resp' = Response("webhook", 0, 200, 0)
            /\ UNCHANGED <<call_analyses, last_score>>
    /\ UNCHANGED <<registry_vars, report, provider, batch, hooks>>

vapi_webhook(data) ==
    /\ IF DOMAIN data = {}
       THEN /\ resp' = Response("webhook", 0, 400, 0)
            /\ UNCHANGED hooks
       ELSE IF Get(data, "type", "") = "call-ended"
       THEN \E h \in HookIds :
              /\ hooks[h].pc = "idle"
              /\ hooks' = [hooks EXCEPT ![h] =
                              [IdleHook EXCEPT !.pc = "start",
                                               !.call_id = Get(data, "id", NoCallId)]]
              /\ resp' = Response("webhook", 0, 200, 1)
       ELSE /\ resp' = Response("webhook", 0, 200, 0)
            /\ UNCHANGED hooks
    /\ UNCHANGED <<registry_vars, report, call_analyses, provider, batch, last_score>>

\* Variant of HookStart without the test of line 391.
HookStartUnchecked(h) ==
    /\ hooks[h].pc = "start"
    /\ hooks' = [hooks EXCEPT ![h] =
                    [@ EXCEPT !.pc = "sleep", !.system_prompt = get_active_prompt]]
    /\ UNCHANGED <<registry_vars, report, call_analyses, provider, batch, resp, last_score>>

\* Lines 388-393: read the active prompt; return when there is none.
HookStart(h) ==
    /\ hooks[h].pc = "start"
    /\ LET system_prompt == get_active_prompt
       IN  hooks' = [hooks EXCEPT ![h] =
                        IF ~Truthy(system_prompt) THEN IdleHook
                        ELSE [@ EXCEPT !.pc = "sleep", !.system_prompt = system_prompt]]
    /\ UNCHANGED <<registry_vars, report, call_analyses, provider, batch, resp, last_score>>

\* Line 400: asyncio.sleep(10) is over.
HookWake(h) ==
    /\ hooks[h].pc = "sleep"
    /\ hooks' = [hooks EXCEPT ![h].pc = "fetch"]
    /\ UNCHANGED <<registry_vars, report, call_analyses, provider, batch, resp, last_score>>

\* Lines 402-403, 407-409, for one provider response to the detail request.
HookFetchOf(h, response) ==
    /\ hooks[h].pc = "fetch"
    /\ LET transcript == get_call_transcript(response)
       IN  hooks' = [hooks EXCEPT ![h] =
                        IF UsableInHook(transcript)
                        THEN [@ EXCEPT !.pc = "score", !.transcript = transcript]
                        ELSE IdleHook]
    /\ UNCHANGED <<registry_vars, report, call_analyses, provider, batch, resp, last_score>>

\* Lines 402-403, 407-409: fetch the transcript, return when it is not usable.
HookFetch(h) == \E response \in provider.details : HookFetchOf(h, response)

\* Lines 404-406: the completion call returns or raises; parse, store, return.
HookScore(h) ==
    /\ hooks[h].pc = "score"
    /\ \E completion \in provider.replies :
          LET r == analyze_call_performance(hooks[h].transcript, hooks[h].system_prompt,
                                            hooks[h].call_id, completion, call_analyses)
          IN  Scored(r, hooks[h].call_id, completion)
    /\ hooks' = [hooks EXCEPT ![h] = IdleHook]
    /\ UNCHANGED <<registry_vars, report, provider, batch, resp>>

(***************************************************************************)
(* POST /api/analyze-recent (app.py) running                               *)
(* VAPIAnalyzer.process_recent_calls(active_prompt, hours_back=24).  The   *)
(* request thread blocks in two network calls per candidate, and other     *)
(* threads run meanwhile: the loop is one step per store lookup, per       *)
(* transcript fetch and per completion call.                               *)
(***************************************************************************)
\* calls, recent_calls, max_calls_to_analyze, i, transcript and analyses are
\* the locals of process_recent_calls.  fresh, fetched and scored are
\* history: whether no listed call was in the store when the run began, and
\* the call ids whose transcript was fetched and which were scored, in order.
\* returned is history kept across runs: for each call id a run scored and
\* stored, the dict that run returned for it.
IdleBatch ==
    [pc |-> "idle", system_prompt |-> NoBody, calls |-> <<>>, recent_calls |-> <<>>,
     max_calls_to_analyze |-> 0, i |-> 0, transcript |-> <<>>, analyses |-> <<>>,
     fresh |-> TRUE, fetched |-> <<>>, scored |-> <<>>, list_status |-> 0,
     returned |-> << >>]

\* Variant of line 298 whose cap is one call too many.
MaxCallsOneMore(recent_calls) == Min(MaxCallsToAnalyze + 1, Len(recent_calls))

\* Variant of line 298 without the cap.
MaxCallsUncapped(recent_calls) == Len(recent_calls)

\* Line 298.
MaxCalls(recent_calls) == Min(MaxCallsToAnalyze, Len(recent_calls))

\* Lines 747-749 of app.py, lines 255-298: list, filter, cap.
analyze_recent_calls ==
    /\ batch.pc \in {"idle", "done"}
    /\ LET active_prompt == get_active_prompt
       IN  IF ~Truthy(active_prompt)
           THEN /\ resp' = Response("analyze-recent", 0, 400, 0)
                /\ UNCHANGED batch
           ELSE \E response \in ListResponses(provider.calls) :
                  LET calls == get_call_logs(response)
                      recent_calls == FilterRecent(calls, HoursBack)
                  IN  IF calls = <<>>
                      THEN /\ batch' = [IdleBatch EXCEPT !.pc = "done",
                                                         !.returned = batch.returned,
                                                         !.system_prompt = active_prompt,
                                                         !.list_status = response.status]
                           /\ resp' = Response("analyze-recent", 0, 200, 0)
                      ELSE /\ batch' = [IdleBatch EXCEPT
                                           !.pc = "loop",
                                           !.returned = batch.returned,
                                           !.system_prompt = active_prompt,
                                           !.list_status = response.status,
                                           !.calls = calls,
                                           !.recent_calls = recent_calls,
                                           !.max_calls_to_analyze =
                                               MaxCalls(recent_calls),
                                           !.fresh =
                                               \A k \in 1..Len(calls) :
                                                   "id" \in DOMAIN calls[k] =>
                                                   calls[k]["id"] \notin
                                                       DOMAIN call_analyses,
                                           !.i = 1]
                           /\ UNCHANGED resp
    /\ UNCHANGED <<registry_vars, report, call_analyses, provider, hooks, last_score>>

\* Variant of Advance that stays on the candidate, which is then tried again.
AdvanceRetrying(b) == [b EXCEPT !.pc = "loop", !.transcript = <<>>]

Advance(b) == [b EXCEPT !.pc = "loop", !.i = @ + 1, !.transcript = <<>>]

\* Variant of BatchVisit in which the KeyError of line 302 leaves the loop
\* and reaches the handler of app.py line 766.
BatchVisitAborting ==
    /\ batch.pc = "loop"
    /\ batch.i <= batch.max_calls_to_analyze
    /\ LET call == batch.recent_calls[batch.i]
       IN  IF "id" \notin DOMAIN call
           THEN /\ batch' = [batch EXCEPT !.pc = "done"]
                /\ resp' = Response("analyze-recent", 0, 500, 0)
           ELSE /\ resp' = resp
                /\ IF call["id"] \in DOMAIN call_analyses
                   THEN batch' = Advance([batch EXCEPT
                            !.analyses = Append(@, call_analyses[call["id"]])])
                   ELSE batch' = [batch EXCEPT !.pc = "fetch"]
    /\ UNCHANGED <<registry_vars, report, call_analyses, provider, hooks, last_score>>

\* Variant of BatchVisit that puts a stored record at the front of the
\* result instead of appending it.
BatchVisitStoredFirst ==
    /\ batch.pc = "loop"
    /\ batch.i <= batch.max_calls_to_analyze
    /\ LET call == batch.recent_calls[batch.i]
       IN  IF "id" \notin DOMAIN call
           THEN batch' = Advance(batch)
           ELSE IF call["id"] \in DOMAIN call_analyses
           THEN batch' = Advance([batch EXCEPT
                            !.analyses = <<call_analyses[call["id"]]>> \o @])
           ELSE batch' = [batch EXCEPT !.pc = "fetch"]
    /\ UNCHANGED <<registry_vars, report, call_analyses, provider, hooks, resp, last_score>>

\* Variant of BatchVisit without the membership test of line 306.
BatchVisitRefetching ==
    /\ batch.pc = "loop"
    /\ batch.i <= batch.max_calls_to_analyze
    /\ LET call == batch.recent_calls[batch.i]
       IN  IF "id" \notin DOMAIN call
           THEN batch' = Advance(batch)
           ELSE batch' = [batch EXCEPT !.pc = "fetch"]
    /\ UNCHANGED <<registry_vars, report, call_analyses, provider, hooks, resp, last_score>>

\* Lines 300-309: next candidate; a call without id raises KeyError and is
\* skipped, a call already in the store contributes its stored record.
BatchVisit ==
    /\ batch.pc = "loop"
    /\ batch.i <= batch.max_calls_to_analyze
    /\ LET call == batch.recent_calls[batch.i]
       IN  IF "id" \notin DOMAIN call
           THEN batch' = Advance(batch)
           ELSE IF call["id"] \in DOMAIN call_analyses
           THEN batch' = Advance([batch EXCEPT
                            !.analyses = Append(@, call_analyses[call["id"]])])
           ELSE batch' = [batch EXCEPT !.pc = "fetch"]
    /\ UNCHANGED <<registry_vars, report, call_analyses, provider, hooks, resp, last_score>>

\* Lines 311-313, 323-324, for one provider response to the detail request.
BatchFetchOf(response) ==
    /\ batch.pc = "fetch"
    /\ LET call_id == batch.recent_calls[batch.i]["id"]
           transcript == get_call_transcript(response)
           b == [batch EXCEPT !.fetched = Append(@, call_id)]
       IN  batch' = IF UsableInBatch(transcript)
                    THEN [b EXCEPT !.pc = "score", !.transcript = transcript]
                    ELSE Advance(b)
    /\ UNCHANGED <<registry_vars, report, call_analyses, provider, hooks, resp, last_score>>

\* Lines 311-313, 323-324.
BatchFetch == \E response \in provider.details : BatchFetchOf(response)

\* Lines 314-322: score, then attach call_id, call_time and duration to the
\* returned dict and append it.
BatchScore ==
    /\ batch.pc = "score"
    /\ \E completion \in provider.replies :
          LET call == batch.recent_calls[batch.i]
              call_id == call["id"]
              r == analyze_call_performance(batch.transcript, batch.system_prompt,
                                            call_id, completion, call_analyses)
              analysis ==
                  [call_id |-> call_id,
                   call_time |-> Get(call, "createdAt", Get(call, "created_at", NoTS)),
                   duration |-> Get(call, "duration", Get(call, "endedAt", Num(0)))]
                  @@ r.ret
          IN  /\ Scored(r, call_id, completion)
              /\ batch' = Advance([batch EXCEPT
                                !.analyses = Append(@, analysis),
                                !.scored = Append(@, call_id),
                                !.returned =
                                    IF /\ call_id \in DOMAIN r.store
                                       /\ call_id \notin DOMAIN call_analyses
                                    THEN (call_id :> analysis) @@ @
                                    ELSE @])
    /\ UNCHANGED <<registry_vars, report, provider, hooks, resp>>

\* Lines 329-330 and lines 759-762 of app.py.
BatchReturn ==
    /\ batch.pc = "loop"
    /\ batch.i > batch.max_calls_to_analyze
    /\ batch' = [batch EXCEPT !.pc = "done"]
    /\ resp' = Response("analyze-recent", 0, 200, Len(batch.analyses))
    /\ UNCHANGED <<registry_vars, report, call_analyses, provider, hooks, last_score>>

(***************************************************************************)
(* SummaryAggregator: VAPIAnalyzer.generate_summary_report(analyses).      *)
(* Scores are compared by their value in tenths.  A frequency table is a   *)
(* sequence of <<string, count>> pairs.  list(set(...)) has no order of    *)
(* its own and is kept as a set.                                           *)
(***************************************************************************)
Range(f) == {f[x] : x \in DOMAIN f}

TopN == 5

\* Lines 347-351: the lists under one key of all analyses, one after another.
RECURSIVE Extend(_, _)
Extend(analyses, key) ==
    IF analyses = <<>> THEN <<>>
    ELSE Get(Head(analyses), key, <<>>) \o Extend(Tail(analyses), key)

\* Lines 355-357: the keys of counts in insertion order, each with its count.
RECURSIVE Counts(_, _)
Counts(items, seen) ==
    IF items = <<>> THEN <<>>
    ELSE IF Head(items) \in seen THEN Counts(Tail(items), seen)
    ELSE LET item == Head(items)
             n == Cardinality({i \in 1..Len(items) : items[i] = item})
         IN  <<(<<item, n>>)>> \o Counts(Tail(items), seen \cup {item})

\* Variant of SortedByCount that leaves the pairs in insertion order.
Unsorted(pairs) == pairs

\* Line 358: sorted(..., key=count, reverse=True).  The sort is stable, also
\* when reversed: pairs with equal counts keep their order.
RECURSIVE SortedByCount(_)
SortedByCount(pairs) ==
    IF pairs = <<>> THEN <<>>
    ELSE LET top == CHOOSE i \in 1..Len(pairs) :
                       /\ \A j \in 1..Len(pairs) : pairs[j][2] <= pairs[i][2]
                       /\ \A j \in 1..(i - 1) : pairs[j][2] < pairs[i][2]
             rest == [j \in 1..(Len(pairs) - 1) |->
                         IF j < top THEN pairs[j] ELSE pairs[j + 1]]
         IN  <<pairs[top]>> \o SortedByCount(rest)

count_items(items) == SortedByCount(Counts(items, {}))

\* The slice seq[:n].
Take(seq, n) == SubSeq(seq, 1, Min(n, Len(seq)))

\* Line 338: a.get('performance_score', 0) for every analysis.
Scores(analyses) ==
    [i \in 1..Len(analyses) |-> Get(analyses[i], "performance_score", JInt(0))]

\* max(scores) and min(scores): the first of the largest, of the smallest.
MaxScore(scores) ==
    scores[CHOOSE i \in 1..Len(scores) :
              /\ \A j \in 1..Len(scores) : scores[j].v <= scores[i].v
              /\ \A j \in 1..(i - 1) : scores[j].v < scores[i].v]

MinScore(scores) ==
    scores[CHOOSE i \in 1..Len(scores) :
              /\ \A j \in 1..Len(scores) : scores[j].v >= scores[i].v
              /\ \A j \in 1..(i - 1) : scores[j].v > scores[i].v]

RECURSIVE SumTenths(_)
SumTenths(scores) ==
    IF scores = <<>> THEN 0 ELSE Head(scores).v + SumTenths(Tail(scores))

\* Line 363: round(sum(scores) / total_calls, 2), in hundredths; a value
\* halfway between two hundredths goes to the even one.
RoundedAverage(scores) ==
    LET num == 10 * SumTenths(scores)
        den == Len(scores)
        q == num \div den
        twice == 2 * (num - q * den)
    IN  IF twice < den THEN q
        ELSE IF twice > den THEN q + 1
        ELSE IF q % 2 = 0 THEN q ELSE q + 1

\* Variant of Excellent with the lower bound left out of the bucket.
ExcellentAbove(scores) == Cardinality({i \in 1..Len(scores) : scores[i].v > 80})

\* Lines 369-371: the three buckets.
Excellent(scores) == Cardinality({i \in 1..Len(scores) : scores[i].v >= 80})
Good(scores) ==
    Cardinality({i \in 1..Len(scores) : 60 <= scores[i].v /\ scores[i].v < 80})
NeedsImprovement(scores) == Cardinality({i \in 1..Len(scores) : scores[i].v < 60})

\* Variant of EmptyReport that answers with a report of zeros.
ZeroReport ==
    [summary |->
        [total_calls_analyzed |-> 0,
         average_performance_score |-> 0,
         score_range |-> [highest |-> JInt(0), lowest |-> JInt(0)],
         score_distribution |-> [excellent |-> 0, good |-> 0, needs_improvement |-> 0]],
     top_strengths |-> <<>>,
     top_improvement_areas |-> <<>>,
     prompt_optimization_suggestions |-> {},
     compliance_concerns |-> {},
     individual_analyses |-> <<>>]

\* Line 335.
EmptyReport == [error |-> "No analyses to summarize"]

generate_summary_report(analyses) ==
    IF analyses = <<>> THEN EmptyReport
    ELSE LET scores == Scores(analyses)
         IN  [summary |->
                 [total_calls_analyzed |-> Len(analyses),
                  average_performance_score |-> RoundedAverage(scores),
                  score_range |-> [highest |-> MaxScore(scores),
                                   lowest |-> MinScore(scores)],
                  score_distribution |->
                      [excellent |-> Excellent(scores),
                       good |-> Good(scores),
                       needs_improvement |-> NeedsImprovement(scores)]],
              top_strengths |-> Take(count_items(Extend(analyses, "strengths")), TopN),
              top_improvement_areas |->
                  Take(count_items(Extend(analyses, "improvement_areas")), TopN),
              prompt_optimization_suggestions |->
                  Range(Extend(analyses, "prompt_suggestions")),
              compliance_concerns |-> Range(Extend(analyses, "compliance_issues")),
              individual_analyses |-> analyses]

\* No report has been asked for.
NoReport == [pending |-> TRUE]

\* The summary is made of the batch at hand.
summarize ==
    /\ report.out = NoReport
    /\ report' = [report EXCEPT !.out = generate_summary_report(report.analyses)]
    /\ UNCHANGED <<registry_vars, call_analyses, provider, batch, hooks, resp,
                   last_score>>

(***************************************************************************)
(* The remote services of the runs.                                        *)
(***************************************************************************)
Call(id, created) == [id |-> id, createdAt |-> created]

Listings ==
    { \* a recent call, an old one, one without creation timestamp
      << [id |-> "c1", createdAt |-> TS("isoZ", 1), duration |-> Num(42)],
         [id |-> "c2", created_at |-> TS("iso", 25)],
         [id |-> "c3", endedAt |-> TS("isoZ", 0)] >>,
      \* a recent call and one whose timestamp is no date
      << Call("c1", TS("isoZ", 1)), Call("c2", TS("bad", 0)) >>,
      \* an old call written with an offset, one at the cutoff, a recent one
      << Call("c1", TSOff(26, 5)),
         Call("c2", TS("isoZ", 24)),
         Call("c3", TS("isoZ", 23)) >>,
      \* a call without id, a numeric timestamp, an empty timestamp
      << [createdAt |-> TS("isoZ", 2)],
         Call("c2", Num(1700000000)),
         [id |-> "c1", created_at |-> TS("empty", 0)] >> }

Remote(calls, details, replies) ==
    [calls |-> calls, details |-> details, replies |-> replies]

LongIds ==
    << "k01", "k02", "k03", "k04", "k05", "k06", "k07", "k08", "k09", "k10",
       "k11", "k12", "k13", "k14", "k15", "k16", "k17", "k18", "k19", "k20" >>

LongListing(n) == [i \in 1..n |-> Call(LongIds[i], TS("isoZ", 1))]

(***************************************************************************)
(* Initial states.  app.py adds the default prompt and activates it when   *)
(* the module is loaded (lines 28-57).                                     *)
(***************************************************************************)
InitRegistry ==
    LET added == add_system_prompt(EmptyDict, "Default Customer Service", DefaultBody)
        activated == activate_prompt(added.sp, None, added.id)
    IN  /\ system_prompts = activated.sp
        /\ active_prompt_id = activated.aid
        /\ issued = {added.id}
        /\ activating = [t \in Activators |-> IdleActivation]
        /\ deleting = IdleDeletion

InitAnalysis ==
    /\ call_analyses = EmptyDict
    /\ batch = IdleBatch
    /\ hooks = [h \in HookIds |-> IdleHook]
    /\ resp = Response("none", 0, 0, 0)
    /\ last_score = [call_id |-> NoCallId, completion |-> Raised,
                     ret |-> ApiFallback("")]
    /\ report = [analyses |-> <<>>, out |-> NoReport]

\* The services of the concurrent runs: two recent calls, few transcripts,
\* few replies.
RaceListing == << Call("c1", TS("isoZ", 1)), Call("c2", TS("iso", 2)) >>

ScoringDetails ==
    { Ok200([transcript |-> <<ShortText>>]),
      [status |-> 404, data |-> EmptyDict] }

ScoringReplies ==
    { Replied(<<Json(FullObj)>>),
      Replied(<<WS, Fence, WS, Json(OtherObj), WS, Fence>>),
      Replied(<<Word("Sorry, I cannot rate this call.")>>) }

Init ==
    /\ InitRegistry
    /\ InitAnalysis
    /\ provider = Remote(RaceListing, ScoringDetails, ScoringReplies)

\* The services of the batch runs: the listings with every kind of
\* timestamp, and a listing longer than the cap.
BatchDetails ==
    { Ok200([transcript |-> <<ShortText>>]),
      Ok200([transcript |-> <<" ">>]),
      Ok200([recordingUrl |-> "https://rec"]),
      Ok200(EmptyDict),
      [status |-> 0, data |-> EmptyDict] }

BatchReplies ==
    { Raised,
      Replied(<<Json(FullObj)>>),
      Replied(<<WS, Fence, WS, Json(OtherObj), WS, Fence>>),
      Replied(<<Word("Sorry, I cannot rate this call.")>>) }

CapDetails ==
    { Ok200([transcript |-> <<ShortText>>]),
      [status |-> 404, data |-> EmptyDict] }

CapReplies == { Replied(<<Json(FullObj)>>) }

UsableDetails == { Ok200([transcript |-> <<ShortText>>]) }

UsableReplies == { Replied(<<Json(FullObj)>>) }

InitBatch ==
    /\ InitRegistry
    /\ InitAnalysis
    /\ provider \in
          { Remote(calls, BatchDetails, BatchReplies) : calls \in Listings }
          \cup { Remote(LongListing(MaxLongListed), CapDetails, CapReplies),
                 Remote(LongListing(MaxLongListed), UsableDetails, UsableReplies) }

\* The batch run over the short listings, with every outcome of a detail
\* request and of a completion.
InitBatchListed ==
    /\ InitRegistry
    /\ InitAnalysis
    /\ provider \in { Remote(calls, BatchDetails, BatchReplies) : calls \in Listings }

\* The webhook reaction alone, on every detail response.  The registry is
\* as app.py leaves it at startup, or as it is after POST /api/prompts with
\* an empty prompt text and the activation of that prompt.
HookReplies ==
    { Raised,
      Replied(<<Json(FullObj)>>),
      Replied(<<Word("Sorry, I cannot rate this call.")>>) }

EmptyPromptActive ==
    LET added == add_system_prompt(EmptyDict, "Default Customer Service", DefaultBody)
        second == add_system_prompt(added.sp, "Draft", "")
    IN  [id |-> second.id, r |-> activate_prompt(second.sp, added.id, second.id)]

InitHook ==
    /\ \/ InitRegistry
       \/ /\ system_prompts = EmptyPromptActive.r.sp
          /\ active_prompt_id = EmptyPromptActive.r.aid
          /\ issued = {1, EmptyPromptActive.id}
          /\ activating = [t \in Activators |-> IdleActivation]
          /\ deleting = IdleDeletion
    /\ InitAnalysis
    /\ provider = Remote(<<>>, DetailResponses, HookReplies)

\* The batches given to generate_summary_report: records as
\* process_recent_calls returns them, up to MaxBatch of them.
Analysis(call_id, score, strengths, improvement_areas) ==
    [call_id |-> call_id,
     call_time |-> TS("isoZ", 1),
     duration |-> Num(42),
     performance_score |-> score,
     strengths |-> strengths,
     improvement_areas |-> improvement_areas,
     prompt_suggestions |-> <<"ask for recap">>,
     compliance_issues |-> <<>>,
     detailed_analysis |-> Detail(<<"Adequate.">>, <<>>)]

SummaryAnalyses ==
    { Analysis("c1", JFloat(90), <<"polite", "clear", "fast">>, <<"no recap">>),
      Analysis("c2", JFloat(70), <<"clear", "patient", "polite">>,
               <<"no recap", "slow">>),
      Analysis("c3", JFloat(40), <<"empathy", "accurate", "thorough">>, <<"slow">>),
      Analysis("c4", JFloat(80), <<"clear", "clear">>, <<>>),
      Analysis("c5", JFloat(60), <<>>, <<"slow", "no recap">>),
      [call_id |-> "c6", call_time |-> TS("isoZ", 1), duration |-> Num(42)]
          @@ ApiFallback("APIError") }

Batches == UNION { [1..n -> SummaryAnalyses] : n \in 0..MaxBatch }

InitSummary ==
    /\ InitRegistry
    /\ call_analyses = EmptyDict
    /\ batch = IdleBatch
    /\ hooks = [h \in HookIds |-> IdleHook]
    /\ resp = Response("none", 0, 0, 0)
    /\ last_score = [call_id |-> NoCallId, completion |-> Raised,
                     ret |-> ApiFallback("")]
    /\ provider = Remote(<<>>, UsableDetails, UsableReplies)
    /\ report \in [analyses : Batches, out : {NoReport}]

\* The scorer alone, on every reply.
InitScorer ==
    /\ InitRegistry
    /\ InitAnalysis
    /\ provider = Remote(<<>>, DetailResponses, Completions)

NextRegistry ==
    \/ \E data \in AddPayloads : add_prompt(data)
    \/ \E prompt_id \in PromptIds : activate_prompt_route(prompt_id)
    \/ \E prompt_id \in PromptIds : delete_prompt(prompt_id)

NextBatch ==
    \/ analyze_recent_calls
    \/ BatchVisit
    \/ BatchFetch
    \/ BatchScore
    \/ BatchReturn

NextScoring ==
    \/ \E data \in Events : vapi_webhook(data)
    \/ \E h \in HookIds : HookStart(h)
    \/ \E h \in HookIds : HookWake(h)
    \/ \E h \in HookIds : HookFetch(h)
    \/ \E h \in HookIds : HookScore(h)
    \/ NextBatch

NextScorer == NextRegistry \/ test_analysis

NextActivation ==
    \/ \E data \in AddPayloads : add_prompt(data)
    \/ \E t \in Activators : \E prompt_id \in PromptIds : ActivateRequest(t, prompt_id)
    \/ \E t \in Activators : ActivateClear(t)
    \/ \E t \in Activators : ActivateSet(t)
    \/ \E t \in Activators : ActivateStore(t)
    \/ \E t \in Activators : ActivateReply(t)

\* One activate request and one delete request at a time, with adds.
NextDeletion ==
    \/ \E data \in AddPayloads : add_prompt(data)
    \/ \E prompt_id \in PromptIds : ActivateRequest(1, prompt_id)
    \/ ActivateClear(1)
    \/ ActivateSet(1)
    \/ ActivateStore(1)
    \/ ActivateReply(1)
    \/ \E prompt_id \in PromptIds : DeleteRequest(prompt_id)
    \/ DeleteGuard
    \/ DeleteRemove

NextHook ==
    \/ \E data \in Events : vapi_webhook(data)
    \/ \E h \in HookIds : HookStart(h)
    \/ \E h \in HookIds : HookWake(h)
    \/ \E h \in HookIds : HookFetch(h)
    \/ \E h \in HookIds : HookScore(h)

Next == NextRegistry \/ NextActivation \/ NextScoring \/ test_analysis \/ summarize

Spec == Init /\ [][Next]_vars
SpecRegistry == Init /\ [][NextRegistry]_vars
SpecScoring == Init /\ [][NextScoring]_vars
SpecScorer == InitScorer /\ [][NextScorer]_vars
SpecBatch == InitBatch /\ [][NextBatch]_vars
SpecHook == InitHook /\ [][NextHook]_vars

\* process_recent_calls is one coroutine run to its end by asyncio.run
\* (app.py lines 754-757): once started, its next statement is always
\* executed, and each request to the provider or the completion service
\* comes back with one of its outcomes.
BatchRuns == BatchVisit \/ BatchFetch \/ BatchScore \/ BatchReturn
SpecBatchFair == InitBatchListed /\ [][NextBatch]_vars /\ WF_vars(BatchRuns)
SpecActivation == Init /\ [][NextActivation]_vars
SpecDeletion == Init /\ [][NextDeletion]_vars
SpecSummary == InitSummary /\ [][summarize]_vars

(***************************************************************************)
(* Properties.                                                             *)
(***************************************************************************)
ActiveFlagged == {p \in DOMAIN system_prompts : system_prompts[p].is_active}

\* C1: whenever analyze_call_performance was called with a call id and has
\* returned (well-formed reply, parse fallback or API-error fallback), a
\* record for that call id is in call_analyses.
C1_StoredOnEveryReturn ==
    CallIdGiven(last_score.call_id) => last_score.call_id \in DOMAIN call_analyses

\* C2: storing is put-if-absent: no step replaces or removes the record
\* stored under a call id.
C2_PutIfAbsent ==
    [][\A c \in DOMAIN call_analyses :
          c \in DOMAIN call_analyses' /\ call_analyses'[c] = call_analyses[c]]_vars

\* C3: when a batch run and webhook reactions for the same call id
\* interleave, only the first writer's insert takes effect: a scoring step of
\* the batch or of a webhook thread never changes a record already stored.
C3_FirstWriterWins ==
    [][(BatchScore \/ \E h \in HookIds : HookScore(h)) =>
          \A c \in DOMAIN call_analyses : call_analyses'[c] = call_analyses[c]]_vars

\* C4: a listed call whose creation timestamp is absent, empty, malformed or
\* fails to parse is in the candidate list of process_recent_calls.
Undated(call) ==
    Get(call, "createdAt", Get(call, "created_at", TS("empty", 0))).k
        \in {"empty", "null", "bad", "num"}

C4_UndatedIncluded ==
    batch.pc # "idle" =>
        \A k \in 1..Len(batch.calls) :
            Undated(batch.calls[k]) => batch.calls[k] \in Range(batch.recent_calls)

\* C5: a reply that decodes as a JSON object whose performance_score cannot
\* be coerced to float gives the parse-failure fallback (score 5.0, an
\* improvement area flagging the failed parsing).
Uncoercible(completion) ==
    LET loaded == json_loads(Strip(Unfence(Strip(completion.content))))
    IN  /\ ~completion.raises
        /\ loaded.ok
        /\ loaded.v.k = "obj"
        /\ "performance_score" \in DOMAIN loaded.v.o
        /\ loaded.v.o["performance_score"].k \in {"text", "null"}

C5_CoercionFailureIsParseFailure ==
    Uncoercible(last_score.completion) =>
        /\ last_score.ret["performance_score"] = JFloat(50)
        /\ "Manual review recommended - analysis parsing failed"
               \in Range(last_score.ret["improvement_areas"])

\* C6: every add returns an id no earlier add returned, and leaves every
\* prompt already stored as it was.
C6_FreshIds ==
    [][\A data \in AddPayloads :
          (add_prompt(data) /\ resp'.code = 200) =>
              /\ resp'.n \notin issued
              /\ \A p \in DOMAIN system_prompts :
                     p \in DOMAIN system_prompts' /\ system_prompts'[p] = system_prompts[p]]_vars

\* C7: after an activate request has completed, at most one stored prompt
\* has is_active = true.
C7_SingleActive ==
    (resp.op = "activate" /\ resp.code = 200) => Cardinality(ActiveFlagged) <= 1

C7_Witness ==
    /\ resp.op = "activate" /\ resp.code = 200
    /\ active_prompt_id = 2
    /\ ActiveFlagged = {2}
    /\ 1 \in DOMAIN system_prompts

\* C8: deleting the active prompt is refused (400) and changes neither the
\* stored prompts, nor a flag, nor the active id.
C8_DeleteGuard ==
    [][\A p \in PromptIds :
          (delete_prompt(p) /\ p = active_prompt_id) =>
              /\ resp'.code = 400
              /\ UNCHANGED <<system_prompts, active_prompt_id>>]_vars

C8_Witness ==
    /\ resp.op = "delete" /\ resp.code = 400
    /\ resp.arg = active_prompt_id
    /\ active_prompt_id \in ActiveFlagged
    /\ Cardinality(DOMAIN system_prompts) >= 2

FifteenEligible ==
    /\ Len(batch.calls) >= 15
    /\ \A k \in 1..Len(batch.calls) :
          "id" \in DOMAIN batch.calls[k] /\ IsRecent(batch.calls[k], HoursBack)
    /\ batch.fresh
    /\ \A response \in provider.details : UsableInBatch(get_call_transcript(response))

C10_BatchCap ==
    /\ Len(batch.scored) <= 10
    /\ Len(batch.analyses) <= 10
    /\ resp.op = "analyze-recent" => resp.n <= 10
    /\ (batch.pc = "done" /\ FifteenEligible) =>
          /\ Len(batch.scored) = 10
          /\ Len(batch.analyses) = 10
          /\ resp.n = 10

C10_Witness ==
    /\ batch.pc = "done"
    /\ FifteenEligible
    /\ Len(batch.scored) = 10
    /\ resp = Response("analyze-recent", 0, 200, 10)

\* C11: when the candidate visited by process_recent_calls is already in
\* call_analyses, the stored record is appended to the result and the run
\* moves on: no transcript is fetched, nothing is scored, and the stored
\* record stays as it is.
CandidateStored ==
    /\ batch.pc = "loop"
    /\ batch.i <= batch.max_calls_to_analyze
    /\ "id" \in DOMAIN batch.recent_calls[batch.i]
    /\ batch.recent_calls[batch.i]["id"] \in DOMAIN call_analyses

C11_StoredNotRescored ==
    [][(BatchVisit /\ CandidateStored) =>
          LET call_id == batch.recent_calls[batch.i]["id"]
          IN  /\ batch'.analyses = Append(batch.analyses, call_analyses[call_id])
              /\ batch'.pc = "loop" /\ batch'.i = batch.i + 1
              /\ batch'.fetched = batch.fetched
              /\ batch'.scored = batch.scored
              /\ call_analyses' = call_analyses
              /\ last_score' = last_score]_vars

C11_Witness ==
    /\ batch.pc = "done"
    /\ Len(batch.analyses) >= 1
    /\ batch.fetched = <<>> /\ batch.scored = <<>>
    /\ \A k \in 1..Len(batch.analyses) :
          /\ batch.analyses[k]["call_id"] \in DOMAIN call_analyses
          /\ "analyzed_at" \in DOMAIN batch.analyses[k]

\* C12: a candidate of process_recent_calls whose fetched transcript is blank
\* or is one of the two sentinels is skipped: it is not scored, no record is
\* added to the result or to call_analyses, and the run moves to the next
\* candidate.
NothingToScore(transcript) ==
    \/ Blank(transcript)
    \/ transcript = <<"No transcript available">>
    \/ transcript = <<"Transcript not yet available - recording found">>

C12_UnusableSkipped ==
    [][\A response \in provider.details :
          (BatchFetchOf(response) /\ NothingToScore(get_call_transcript(response)))
          => /\ batch'.pc = "loop" /\ batch'.i = batch.i + 1
             /\ batch'.analyses = batch.analyses
             /\ batch'.scored = batch.scored
             /\ call_analyses' = call_analyses
             /\ last_score' = last_score]_vars

C12_Witness ==
    /\ batch.pc = "done"
    /\ Len(batch.fetched) = 2
    /\ batch.scored = <<>> /\ batch.analyses = <<>>
    /\ call_analyses = EmptyDict
    /\ \E r1, r2, r3 \in provider.details :
          /\ get_call_transcript(r1) = <<"No transcript available">>
          /\ get_call_transcript(r2) = <<"Transcript not yet available - recording found">>
          /\ get_call_transcript(r3) # <<>> /\ Blank(get_call_transcript(r3))

\* C13: a failure while one candidate is processed (a call without id, a
\* failed detail request, an undecodable reply) costs only that candidate:
\* when process_recent_calls returns, every candidate up to the cap has been
\* visited, each one that has an id was either fetched or answered from the
\* store, and the records gathered are what the invocation returns.
C13_FailureSkipsOneCall ==
    batch.pc = "done" =>
        /\ resp = Response("analyze-recent", 0, 200, Len(batch.analyses))
        /\ \A k \in 1..batch.max_calls_to_analyze :
              "id" \in DOMAIN batch.recent_calls[k] =>
                  LET call_id == batch.recent_calls[k]["id"]
                  IN  \/ call_id \in Range(batch.fetched)
                      \/ \E j \in 1..Len(batch.analyses) :
                             batch.analyses[j]["call_id"] = call_id
        /\ \A j \in 1..Len(batch.scored) :
              \E n \in 1..Len(batch.analyses) :
                  batch.analyses[n]["call_id"] = batch.scored[j]

C13_Witness ==
    /\ batch.pc = "done"
    /\ batch.max_calls_to_analyze = 2
    /\ "id" \notin DOMAIN batch.recent_calls[1]
    /\ batch.fetched = <<"c2">>
    /\ batch.scored = <<"c2">>
    /\ Len(batch.analyses) = 1
    /\ batch.analyses[1]["call_id"] = "c2"
    /\ last_score.completion.raises

\* C14: when the completion call raises, analyze_call_performance returns a
\* record instead of raising: score 0.0, no strengths, the improvement area
\* "Analysis failed - API error", the compliance issue "System error during
\* analysis"; it differs from the parse fallback in the score and in these
\* three fields.
C14_ApiFailureFallback ==
    (CallIdGiven(last_score.call_id) /\ last_score.completion.raises) =>
        LET ret == last_score.ret
            parse == ParseFallback(<<>>)
        IN  /\ DOMAIN ret = {required_fields[i] : i \in 1..Len(required_fields)}
            /\ ret["performance_score"] = [k |-> "float", v |-> 0]
            /\ ret["strengths"] = <<>>
            /\ ret["improvement_areas"] = <<"Analysis failed - API error">>
            /\ ret["compliance_issues"] = <<"System error during analysis">>
            /\ ret["performance_score"] # parse["performance_score"]
            /\ ret["strengths"] # parse["strengths"]
            /\ ret["improvement_areas"] # parse["improvement_areas"]
            /\ ret["compliance_issues"] # parse["compliance_issues"]

C14_Witness ==
    /\ last_score.call_id = TestCallId
    /\ last_score.completion.raises
    /\ last_score.ret["performance_score"].v = 0
    /\ resp.op = "test-analysis" /\ resp.code = 200

\* C15: when the completion call returns text that is no JSON document (no
\* JSON value in it at all, or a JSON value with other text around it and no
\* fence), analyze_call_performance returns the parse fallback: score 5.0,
\* the strength "Call completed successfully" and the improvement area
\* "Manual review recommended - analysis parsing failed".
NotJsonText(content) ==
    \/ \A i \in 1..Len(content) : content[i].t # "json"
    \/ /\ \A i \in 1..Len(content) : content[i] # Fence
       /\ \E i \in 1..Len(content) : content[i].t = "word"

C15_ParseFailureFallback ==
    (/\ CallIdGiven(last_score.call_id)
     /\ ~last_score.completion.raises
     /\ NotJsonText(last_score.completion.content)) =>
        LET ret == last_score.ret
        IN  /\ DOMAIN ret = {required_fields[i] : i \in 1..Len(required_fields)}
            /\ ret["performance_score"] = [k |-> "float", v |-> 50]
            /\ ret["strengths"] = <<"Call completed successfully">>
            /\ ret["improvement_areas"] =
                   <<"Manual review recommended - analysis parsing failed">>

C15_Witness ==
    /\ last_score.call_id = TestCallId
    /\ ~last_score.completion.raises
    /\ last_score.completion.content =
           <<Word("Here is the analysis:"), WS, Json(FullObj)>>
    /\ last_score.ret["performance_score"].v = 50
    /\ last_score.ret["strengths"] = <<"Call completed successfully">>

\* The reply is one JSON value, bare or inside one fence that may carry the
\* label json, with nothing but whitespace around it.
BareReply(content) ==
    LET c == Strip(content)
    IN  Len(c) = 1 /\ c[1].t = "json"

FencedReply(content) ==
    LET c == Strip(content)
    IN  /\ Len(c) >= 3
        /\ c[1] = Fence /\ c[Len(c)] = Fence
        /\ LET mid == SubSeq(c, 2, Len(c) - 1)
               body == Strip(IF Head(mid) = Word("json") THEN Tail(mid) ELSE mid)
           IN  Len(body) = 1 /\ body[1].t = "json"

ReplyValue(content) ==
    content[CHOOSE i \in 1..Len(content) : content[i].t = "json"].v

RequiredFields == {required_fields[i] : i \in 1..Len(required_fields)}

\* The last scored reply is a JSON object that leaves out at least one of
\* the six fields.
PartialReply ==
    /\ CallIdGiven(last_score.call_id)
    /\ ~last_score.completion.raises
    /\ \/ BareReply(last_score.completion.content)
       \/ FencedReply(last_score.completion.content)
    /\ ReplyValue(last_score.completion.content).k = "obj"
    /\ ~(RequiredFields \subseteq DOMAIN ReplyValue(last_score.completion.content).o)

DefaultsFilled ==
    LET o == ReplyValue(last_score.completion.content).o
        ret == last_score.ret
    IN  \A f \in RequiredFields \ DOMAIN o :
           ret[f] = IF f = "performance_score" THEN [k |-> "float", v |-> 50]
                    ELSE IF f = "detailed_analysis"
                    THEN Detail(<<"Analysis completed">>, <<>>)
                    ELSE <<>>

\* C16 as stated: with a partial reply every missing field gets its default
\* and every field the reply gives appears in the result with the same
\* value (a number counts as the same value whether int or float).
C16_ProvidedUnchanged ==
    PartialReply =>
        LET o == ReplyValue(last_score.completion.content).o
            ret == last_score.ret
        IN  /\ DefaultsFilled
            /\ \A f \in DOMAIN o :
                  IF f = "performance_score"
                  THEN /\ ret[f].v = o[f].v
                       /\ o[f].k \in {"int", "float"}
                  ELSE ret[f] = o[f]

\* C16, amended: with a partial reply whose score, if given, is a number or
\* a string that spells one, every missing field gets its default, every
\* given field other than the score is unchanged, and a given score appears
\* as the float it converts to.
C16_ProvidedUnchangedButScore ==
    (/\ PartialReply
     /\ LET o == ReplyValue(last_score.completion.content).o
        IN  "performance_score" \in DOMAIN o =>
                o["performance_score"].k \in {"int", "float", "numstr"}) =>
        LET o == ReplyValue(last_score.completion.content).o
            ret == last_score.ret
        IN  /\ DefaultsFilled
            /\ \A f \in DOMAIN o :
                  IF f = "performance_score"
                  THEN ret[f] = [k |-> "float", v |-> o[f].v]
                  ELSE ret[f] = o[f]

C16_Witness ==
    /\ PartialReply
    /\ ReplyValue(last_score.completion.content) = PartialObj
    /\ last_score.ret["compliance_issues"] = <<>>
    /\ last_score.ret["performance_score"] = [k |-> "float", v |-> 50]
    /\ last_score.ret["strengths"] = <<"clear">>
    /\ call_analyses[TestCallId]["improvement_areas"] = <<"slow">>

\* The last scored reply is a JSON object, bare or fenced, that gives all
\* six fields with a JSON number as score.
CompleteReply ==
    /\ CallIdGiven(last_score.call_id)
    /\ ~last_score.completion.raises
    /\ \/ BareReply(last_score.completion.content)
       \/ FencedReply(last_score.completion.content)
    /\ ReplyValue(last_score.completion.content).k = "obj"
    /\ RequiredFields \subseteq DOMAIN ReplyValue(last_score.completion.content).o
    /\ ReplyValue(last_score.completion.content).o["performance_score"].k
          \in {"int", "float"}

Dated(call) ==
    Get(call, "createdAt", Get(call, "created_at", TS("empty", 0))).k
        \in {"isoZ", "iso", "isoOff"}

C18_StrictlyAfterCutoff ==
    batch.pc # "idle" =>
        \A n \in 1..Len(batch.calls) :
            LET call == batch.calls[n]
                created_at == Get(call, "createdAt", Get(call, "created_at", NoTS))
            IN  Dated(call) =>
                   ((\E m \in 1..Len(batch.recent_calls) : batch.recent_calls[m] = call)
                        <=> created_at.age < HoursBack)

\* C19: the records process_recent_calls gathers follow the order of the
\* candidates, which is the order of the provider's list; a record taken
\* from the store stands at its call's position among the newly scored
\* ones.  Both orders are strict, so comparing neighbours settles all pairs.
CandidateAt(call_id) ==
    CHOOSE n \in 1..Len(batch.recent_calls) :
        /\ "id" \in DOMAIN batch.recent_calls[n]
        /\ batch.recent_calls[n]["id"] = call_id

ListedAt(call) ==
    CHOOSE n \in 1..Len(batch.calls) : batch.calls[n] = call

C19_ListOrder ==
    /\ \A a \in 1..(Len(batch.analyses) - 1) :
          CandidateAt(batch.analyses[a]["call_id"])
             < CandidateAt(batch.analyses[a + 1]["call_id"])
    /\ \A m \in 1..(Len(batch.recent_calls) - 1) :
          ListedAt(batch.recent_calls[m]) < ListedAt(batch.recent_calls[m + 1])

C19_Witness ==
    /\ batch.pc = "done"
    /\ Len(batch.analyses) >= 3
    /\ "analyzed_at" \notin DOMAIN batch.analyses[1]
    /\ "analyzed_at" \in DOMAIN batch.analyses[2]
    /\ "analyzed_at" \notin DOMAIN batch.analyses[3]

\* C20: when the provider's list request fails (a status other than 200, or
\* no response at all), get_call_logs gives the empty list and
\* process_recent_calls returns an empty result at once: nothing is
\* fetched, nothing is scored, call_analyses is left as it was.
C20_ListFailureEmpty ==
    [][(/\ analyze_recent_calls
        /\ Truthy(get_active_prompt)
        /\ batch'.list_status # 200) =>
          /\ batch'.pc = "done"
          /\ batch'.calls = <<>> /\ batch'.recent_calls = <<>>
          /\ batch'.analyses = <<>>
          /\ batch'.fetched = <<>> /\ batch'.scored = <<>>
          /\ resp' = Response("analyze-recent", 0, 200, 0)
          /\ call_analyses' = call_analyses
          /\ last_score' = last_score]_vars

C20_Witness ==
    /\ batch.pc = "done"
    /\ batch.list_status = 503
    /\ Len(provider.calls) >= 1
    /\ batch.analyses = <<>> /\ batch.fetched = <<>>
    /\ resp = Response("analyze-recent", 0, 200, 0)
    /\ call_analyses # EmptyDict

\* C21: on a 200 detail response get_call_transcript gives the first source
\* that yields a transcript, in the order: transcript field, messages
\* rendered as "<Role>: <content>" lines, artifact transcript, then the
\* recording-found sentinel when there is a recordingUrl, else "No
\* transcript available".  Stated on the webhook's fetch step: the hook goes
\* on to score exactly that transcript, or returns when it is not usable.
FirstSource(call_data) ==
    LET direct == Get(call_data, "transcript", <<>>)
        rendered == JoinMessages(Get(call_data, "messages", <<>>))
        nested == Get(Get(call_data, "artifact", EmptyDict), "transcript", <<>>)
    IN  IF direct # <<>> THEN direct
        ELSE IF rendered # <<>> THEN rendered
        ELSE IF nested # <<>> THEN nested
        ELSE IF "recordingUrl" \in DOMAIN call_data
        THEN <<"Transcript not yet available - recording found">>
        ELSE <<"No transcript available">>

C21_FirstUsableSource ==
    [][\A h \in HookIds : \A response \in provider.details :
          (HookFetchOf(h, response) /\ response.status = 200) =>
              LET transcript == FirstSource(response.data)
              IN  IF UsableInHook(transcript)
                  THEN hooks'[h].pc = "score" /\ hooks'[h].transcript = transcript
                  ELSE hooks'[h] = IdleHook]_vars

\* C22: every record in call_analyses and every record returned by
\* analyze_call_performance or gathered by process_recent_calls has a
\* performance_score between 0 and 10 (0 and 100 tenths), whatever the
\* completion replied.
InRange(score) == 0 <= score.v /\ score.v <= 100

C22_ScoreInRange ==
    /\ \A call_id \in DOMAIN call_analyses :
          InRange(call_analyses[call_id]["performance_score"])
    /\ InRange(last_score.ret["performance_score"])
    /\ \A n \in 1..Len(batch.analyses) :
          InRange(batch.analyses[n]["performance_score"])

\* C23: while activate requests for different prompts are served by
\* concurrent threads, at no moment do two prompts have is_active = TRUE,
\* and once no activate request is in flight the flagged prompt is exactly
\* the one named by active_prompt_id.
C23_ActivationAtomic ==
    /\ Cardinality(ActiveFlagged) <= 1
    /\ (\A t \in Activators : activating[t].pc = "idle")
          => ActiveFlagged = {active_prompt_id}

\* C24: the response to a call-ended event is produced by the step that
\* starts the background thread, before the reaction has done anything: at
\* that moment the thread has not yet read the prompt, waited, fetched or
\* scored, and the store is as it was.
CallEnded(data) == Get(data, "type", "") = "call-ended"

C24_AckBeforeReaction ==
    [][\A data \in Events :
          (vapi_webhook(data) /\ CallEnded(data)) =>
              /\ resp' = Response("webhook", 0, 200, 1)
              /\ \E h \in HookIds :
                    /\ hooks[h].pc = "idle"
                    /\ hooks'[h].pc = "start"
                    /\ hooks'[h].call_id = data.id
              /\ call_analyses' = call_analyses
              /\ last_score' = last_score]_vars

C24_Witness ==
    /\ resp = Response("webhook", 0, 200, 1)
    /\ hooks[1].pc = "score"
    /\ hooks[2].pc = "sleep"
    /\ "c1" \notin DOMAIN call_analyses

\* C25: an event whose type is not "call-ended" (or that has no type) is
\* answered 200 and ignored: no thread is started, and the store, the last
\* scoring and the registry stay as they were.  Only a call-ended event
\* starts a thread.
C25_OtherEventsIgnored ==
    [][\A data \in Events :
          (vapi_webhook(data) /\ DOMAIN data # {} /\ ~CallEnded(data)) =>
              /\ resp' = Response("webhook", 0, 200, 0)
              /\ hooks' = hooks
              /\ call_analyses' = call_analyses
              /\ last_score' = last_score
              /\ system_prompts' = system_prompts
              /\ active_prompt_id' = active_prompt_id]_vars

C25_Witness ==
    /\ resp = Response("webhook", 0, 200, 0)
    /\ \A h \in HookIds : hooks[h] = IdleHook
    /\ call_analyses = EmptyDict
    /\ active_prompt_id = 1

\* C26: when handle_call_ended finds no active prompt text it returns at
\* once: the thread ends without sleeping, fetching or scoring, and
\* call_analyses is left as it was.
C26_NoRubricNoOp ==
    [][\A h \in HookIds :
          (HookStart(h) /\ ~Truthy(get_active_prompt)) =>
              /\ hooks'[h] = IdleHook
              /\ call_analyses' = call_analyses
              /\ last_score' = last_score
              /\ resp' = resp]_vars

C26_Witness ==
    /\ ~Truthy(get_active_prompt)
    /\ resp = Response("webhook", 0, 200, 1)
    /\ \A h \in HookIds : hooks[h] = IdleHook
    /\ call_analyses = EmptyDict
    /\ ~CallIdGiven(last_score.call_id)

\* C27: with an active prompt, handle_call_ended fetches the transcript only
\* after its delay; a transcript that is empty or one of the two sentinels
\* ends the reaction with nothing scored and the store unchanged; a usable
\* one is scored once, the thread ends, and the result is in call_analyses
\* under the event's call id.
NotForScoring(transcript) ==
    \/ transcript = <<>>
    \/ transcript = <<"No transcript available">>
    \/ transcript = <<"Transcript not yet available - recording found">>

C27_ReactionScoresAndPersists ==
    [][/\ \A h \in HookIds : \A response \in provider.details :
            HookFetchOf(h, response) =>
                IF NotForScoring(get_call_transcript(response))
                THEN /\ hooks'[h] = IdleHook
                     /\ call_analyses' = call_analyses
                     /\ last_score' = last_score
                ELSE /\ hooks'[h].pc = "score"
                     /\ hooks'[h].transcript = get_call_transcript(response)
                     /\ call_analyses' = call_analyses
       /\ \A h \in HookIds :
            HookScore(h) =>
                /\ hooks'[h] = IdleHook
                /\ last_score'.call_id = hooks[h].call_id
                /\ hooks[h].call_id \in DOMAIN call_analyses'
                /\ \A f \in RequiredFields :
                      call_analyses'[hooks[h].call_id][f] = last_score'.ret[f]]_vars

\* The report made of a batch that is not empty.
Summarized == report.out # NoReport /\ report.analyses # <<>>

ScoreOf(n) == report.analyses[n]["performance_score"].v

\* C28: for a batch that is not empty the report gives the batch size as
\* count, the smallest and largest score as lowest and highest, and three
\* bucket counts (score >= 8, 6 <= score < 8, score < 6) in which every
\* score is counted exactly once, so that they add up to the count.
C28_SummaryStatistics ==
    Summarized =>
        LET idx == 1..Len(report.analyses)
            summary == report.out.summary
            dist == summary.score_distribution
        IN  /\ summary.total_calls_analyzed = Len(report.analyses)
            /\ \A n \in idx : summary.score_range.lowest.v <= ScoreOf(n)
            /\ \E n \in idx : summary.score_range.lowest.v = ScoreOf(n)
            /\ \A n \in idx : summary.score_range.highest.v >= ScoreOf(n)
            /\ \E n \in idx : summary.score_range.highest.v = ScoreOf(n)
            /\ dist.excellent = Cardinality({n \in idx : ScoreOf(n) >= 80})
            /\ dist.good = Cardinality({n \in idx : ScoreOf(n) >= 60 /\ ScoreOf(n) < 80})
            /\ dist.needs_improvement = Cardinality({n \in idx : ScoreOf(n) < 60})
            /\ dist.excellent + dist.good + dist.needs_improvement
                  = summary.total_calls_analyzed

C28_Witness ==
    /\ Summarized
    /\ Len(report.analyses) = 3
    /\ ScoreOf(1) = 90 /\ ScoreOf(2) = 70 /\ ScoreOf(3) = 40
    /\ report.out.summary.total_calls_analyzed = 3
    /\ report.out.summary.score_distribution
          = [excellent |-> 1, good |-> 1, needs_improvement |-> 1]
    /\ report.out.summary.score_range.lowest.v = 40
    /\ report.out.summary.score_range.highest.v = 90
    /\ report.out.summary.average_performance_score = 667

\* The strings under one key across the batch, in batch order, and how often
\* and where first each occurs.
Across(key) == Extend(report.analyses, key)
Occurrences(key, x) ==
    Cardinality({i \in 1..Len(Across(key)) : Across(key)[i] = x})
FirstSeen(key, x) ==
    CHOOSE i \in 1..Len(Across(key)) :
        /\ Across(key)[i] = x
        /\ \A j \in 1..(i - 1) : Across(key)[j] # x

\* The table lists at most five distinct strings of the batch with their
\* counts, by descending count, equal counts in first-seen order, and no
\* string left out occurs more often than a listed one.
TopTable(table, key) ==
    LET idx == 1..Len(table)
        listed == {table[i][1] : i \in idx}
        all == Range(Across(key))
    IN  /\ Len(table) <= 5
        /\ Len(table) = Min(5, Cardinality(all))
        /\ listed \subseteq all
        /\ \A i, j \in idx : i # j => table[i][1] # table[j][1]
        /\ \A i \in idx : table[i][2] = Occurrences(key, table[i][1])
        /\ \A i, j \in idx :
              i < j => \/ table[i][2] > table[j][2]
                       \/ /\ table[i][2] = table[j][2]
                          /\ FirstSeen(key, table[i][1]) < FirstSeen(key, table[j][1])
        /\ \A x \in all \ listed :
              \A i \in idx : Occurrences(key, x) <= table[i][2]

\* C29: the report's tables of strengths and of improvement areas are such
\* tables.
C29_TopFive ==
    Summarized =>
        /\ TopTable(report.out.top_strengths, "strengths")
        /\ TopTable(report.out.top_improvement_areas, "improvement_areas")

C29_Witness ==
    /\ Summarized
    /\ Cardinality(Range(Across("strengths"))) = 7
    /\ report.out.top_strengths =
          << <<"polite", 2>>, <<"clear", 2>>, <<"fast", 1>>, <<"patient", 1>>,
             <<"empathy", 1>> >>
    /\ report.out.top_improvement_areas = << <<"no recap", 2>>, <<"slow", 2>> >>

\* C30: for an empty batch generate_summary_report returns the marker
\* {"error": "No analyses to summarize"} and nothing else: no count, no
\* score statistics, no tables.
C30_EmptyBatchMarker ==
    (report.out # NoReport /\ report.analyses = <<>>) =>
        /\ DOMAIN report.out = {"error"}
        /\ report.out["error"] = "No analyses to summarize"

C30_Witness ==
    /\ report.analyses = <<>>
    /\ report.out = [error |-> "No analyses to summarize"]

\* C31: get_active_prompt returns the text of the stored prompt whose
\* is_active flag is TRUE, and None when no stored prompt is flagged or the
\* active id names no stored prompt.
C31_ActiveBody ==
    /\ \A p \in ActiveFlagged :
          Cardinality(ActiveFlagged) = 1 => get_active_prompt = system_prompts[p].prompt
    /\ ActiveFlagged = {} => get_active_prompt = NoBody
    /\ active_prompt_id \notin DOMAIN system_prompts => get_active_prompt = NoBody

\* C32: the call ids in call_analyses only grow in number, and the record
\* under a call id stays the record first stored under it, whatever the
\* scorer, the batch run and the webhook reactions do afterwards.
C32_StoreOnlyGrows ==
    [][/\ DOMAIN call_analyses \subseteq DOMAIN call_analyses'
       /\ \A call_id \in DOMAIN call_analyses :
             \A key \in DOMAIN call_analyses[call_id] :
                 /\ key \in DOMAIN call_analyses'[call_id]
                 /\ call_analyses'[call_id][key] = call_analyses[call_id][key]]_vars

\* The reply is one JSON object inside one fence, which may carry a label of
\* any spelling, with nothing but whitespace around the object.
LabelledFenceReply(content) ==
    LET c == Strip(content)
    IN  /\ Len(c) >= 3
        /\ c[1] = Fence /\ c[Len(c)] = Fence
        /\ LET mid == SubSeq(c, 2, Len(c) - 1)
               body == Strip(IF Head(mid).t = "word" THEN Tail(mid) ELSE mid)
           IN  Len(body) = 1 /\ body[1].t = "json" /\ body[1].v.k = "obj"

\* C33: a reply that is one analysis JSON object inside a single fence,
\* labelled or not, gives the result the same object gives when sent bare.
C33_FenceStripped ==
    (/\ ~last_score.completion.raises
     /\ LabelledFenceReply(last_score.completion.content))
    => last_score.ret =
          analyze_call_performance(<<SampleText>>, "", last_score.call_id,
              Replied(<<Json(ReplyValue(last_score.completion.content))>>),
              << >>).ret

\* C34: the active id is unset, or it names a stored prompt whose is_active
\* flag is TRUE; every other stored prompt has is_active FALSE.
C34_ActiveIdAgreesWithFlags ==
    /\ active_prompt_id # None =>
          /\ active_prompt_id \in DOMAIN system_prompts
          /\ system_prompts[active_prompt_id].is_active
    /\ \A p \in DOMAIN system_prompts \ {active_prompt_id} :
          ~system_prompts[p].is_active

\* C35: with the provider's list unchanged, only the first ten calls that
\* pass the time filter are ever candidates: the loop never stands on a later
\* position, and a call listed only at position 11 or later is never fetched,
\* never scored, never returned and never stored, however many invocations
\* have run and however many of the first ten were already stored or skipped.
C35_CapBeforeDedup ==
    LET recent == FilterRecent(provider.calls, HoursBack)
        FirstTen == {recent[k]["id"] : k \in {j \in 1..Len(recent) :
                         j <= MaxCallsToAnalyze /\ "id" \in DOMAIN recent[j]}}
        Beyond == {recent[k]["id"] : k \in {j \in 1..Len(recent) :
                         j > MaxCallsToAnalyze /\ "id" \in DOMAIN recent[j]}}
    IN  /\ batch.pc \in {"fetch", "score"} => batch.i <= MaxCallsToAnalyze
        /\ \A call_id \in Beyond \ FirstTen :
              /\ call_id \notin DOMAIN call_analyses
              /\ call_id \notin Range(batch.fetched)
              /\ call_id \notin Range(batch.scored)
              /\ \A n \in 1..Len(batch.analyses) :
                    batch.analyses[n]["call_id"] # call_id

\* A later invocation over a list of more than ten recent calls has returned:
\* all ten candidates were answered from the store, none was fetched.
C35_Witness ==
    /\ batch.pc = "done"
    /\ Len(batch.recent_calls) > MaxCallsToAnalyze
    /\ ~batch.fresh
    /\ batch.fetched = << >>
    /\ Len(batch.analyses) = MaxCallsToAnalyze
    /\ Cardinality(DOMAIN call_analyses) = MaxCallsToAnalyze

\* C36: when a later invocation answers a candidate from the store, the
\* record it returns for that call id is the record the invocation that
\* scored and stored the call returned for it, field by field (call_id,
\* call_time and duration included).
C36_SameRecordAgain ==
    \A n \in 1..Len(batch.analyses) :
        LET call_id == batch.analyses[n]["call_id"]
        IN  (call_id \in DOMAIN batch.returned /\ call_id \notin Range(batch.scored))
            => batch.analyses[n] = batch.returned[call_id]

\* C37: while a delete request and activate requests for the same prompt
\* are served concurrently, in whatever order their lookup and update steps
\* interleave, the active id never names a prompt that is no longer stored.
C37_ActiveNeverDeleted ==
    active_prompt_id # None => active_prompt_id \in DOMAIN system_prompts

\* C38: an invocation of process_recent_calls that has entered its loop
\* returns, whatever the detail requests and the completions give; on the
\* way the loop position never goes back and moves on by one candidate at a
\* time, and a candidate is fetched at most once and scored at most once, so
\* that at the return every candidate was visited once and none again.
Running == batch.pc \in {"loop", "fetch", "score"}

C38_InvocationReturns ==
    /\ Running ~> batch.pc = "done"
    /\ [][Running =>
             /\ batch'.pc # "idle"
             /\ batch'.i \in {batch.i, batch.i + 1}
             /\ batch'.i <= batch.max_calls_to_analyze + 1
             /\ Len(batch'.fetched) <= batch'.i
             /\ Len(batch'.scored) <= Len(batch'.fetched)
             /\ batch'.pc = "loop" =>
                    Len(batch'.fetched) < batch'.i /\ Len(batch'.analyses) < batch'.i
             /\ batch'.pc = "done" =>
                    batch'.i = batch.max_calls_to_analyze + 1]_vars

\* A run over two candidates has returned after two detail requests, of
\* which one gave nothing usable and the other led to a fallback record.
C38_Witness ==
    /\ batch.pc = "done"
    /\ batch.max_calls_to_analyze = 2
    /\ Len(batch.fetched) = 2
    /\ Len(batch.scored) = 1
    /\ last_score.completion.raises

====
